---------------------------- MODULE Spec2Model ----------------------------
(***************************************************************************)
(* Model of backend/src/server.js: the Express 4 middleware pipeline       *)
(*   limiter (/api) -> cors -> body parsers -> static (/uploads) ->        *)
(*   routes -> error middleware -> 404 fallback                            *)
(* and the in-memory store of express-rate-limit.                          *)
(*                                                                         *)
(* A path is the sequence of its segments: "/api/health" is                *)
(* <<"api", "health">>.  A JavaScript undefined is the value Undefined.    *)
(* The third-party middlewares are modelled by what they do under the      *)
(* options server.js passes them.  helmet and compression change only      *)
(* response headers and the encoding of the body and are left out.         *)
(* The limiter's clock is modelled by the event that an address's window   *)
(* runs out (windowMs after it started).                                   *)
(***************************************************************************)
EXTENDS Integers, Sequences, FiniteSets, TLC

VARIABLES
    hits,       \* limiter store: address -> requests counted in its window
    expired,    \* limiter store: address -> its window's reset time is past
    env,        \* process.env: NODE_ENV and FRONTEND_URL
    req,        \* the request handled last
    res,        \* the response sent to it
    console     \* what handling it wrote to the console

vars == <<hits, expired, env, req, res, console>>

Undefined == "<undefined>"

\* JavaScript truthiness of the values a body field or an environment
\* variable takes here: undefined, null and the empty string are falsy.
Truthy(v) == v \notin {Undefined, "<null>", ""}

\* a || b
OrElse(a, b) == IF Truthy(a) THEN a ELSE b

-----------------------------------------------------------------------------
(* Bounds and inputs *)

\* requests counted beyond max before an address stops sending
Over == 2

\* requests one run of the pipeline specification handles
MaxBurst == 2

Addresses == {"10.0.0.1", "10.0.0.2"}

DefaultOrigin == "http://localhost:3000"
OtherOrigin   == "https://sakura.example"

NodeEnvs     == {Undefined, "development", "production"}
FrontendUrls == {Undefined, OtherOrigin}
Envs         == [NODE_ENV : NodeEnvs, FRONTEND_URL : FrontendUrls]

Origins == {DefaultOrigin, OtherOrigin}

\* a body field: absent, JSON null, the empty string, a non-empty string
FieldValues == {Undefined, "<null>", "", "x"}

NoBody  == [kind |-> "none", name |-> Undefined, email |-> Undefined,
            subject |-> Undefined, message |-> Undefined]
BadBody == [NoBody EXCEPT !.kind = "malformed"]
JsonBodies == [kind : {"json"}, name : FieldValues, email : FieldValues,
               subject : FieldValues, message : FieldValues]
FullBody == [kind |-> "json", name |-> "x", email |-> "x",
             subject |-> "x", message |-> "x"]

\* Date.now() as days since the epoch and milliseconds of the day:
\* 1970-01-01T00:00:00.000Z, 2000-02-29T12:00:00.000Z, 2025-12-31T23:59:59.999Z
Epoch  == [days |-> 0, ms |-> 0]
Clocks == {Epoch, [days |-> 11016, ms |-> 43200000],
           [days |-> 20453, ms |-> 86399999]}

ApiRoot     == <<"api">>
HealthPath  == <<"api", "health">>
ProjectsPath == <<"api", "projects">>
StudentsPath == <<"api", "students">>
ContactPath == <<"api", "contact">>
UnknownApiPath == <<"api", "unknown">>
UploadPath  == <<"uploads", "f.png">>
OtherPath   == <<"other">>

Paths == {ApiRoot, HealthPath, ProjectsPath, StudentsPath, ContactPath,
          UnknownApiPath, UploadPath, OtherPath}
Methods == {"GET", "HEAD", "POST", "OPTIONS"}

NoRequest == [addr |-> "", method |-> "", path |-> <<>>, origin |-> Undefined,
              body |-> NoBody, file |-> FALSE, now |-> Epoch]

-----------------------------------------------------------------------------
(* The rate limiter *)

max == 100

RateLimitMessage ==
    [error |-> "Demasiadas peticiones, intenta de nuevo en 15 minutos"]

\* variant: the limiter mounted on every path, app.use(limiter)
EveryPath(path) == TRUE

\* app.use('/api/', ...): the mount path matches a whole first segment
UnderApi(path) == Len(path) >= 1 /\ path[1] = "api"

\* variant: a store whose windows never run out
IncrementNoExpiry(h, x, a) == h[a] + 1

\* the store's increment: a key whose window is past starts a new window
Increment(h, x, a) == IF h[a] = 0 \/ x[a] THEN 1 ELSE h[a] + 1

\* variant: the max-th request is rejected already
ExceededFromMax(n) == n >= max

\* the limiter rejects a request whose count is beyond max
Exceeded(n) == n > max

NoHeaders == [acao |-> Undefined, acac |-> Undefined, vary |-> Undefined]

Response(status, stage, body, headers) ==
    [status |-> status, stage |-> stage, body |-> body, headers |-> headers]

NoResponse == Response(0, "none", [none |-> TRUE], NoHeaders)

\* the limiter's answer: sent before the CORS stage has run
Limited == Response(429, "limiter", RateLimitMessage, NoHeaders)

-----------------------------------------------------------------------------
(* CORS, body parsing, static files *)

\* variant: headers only for a request from the configured origin
CorsHeadersReflecting(e, origin) ==
    IF origin = OrElse(e.FRONTEND_URL, DefaultOrigin)
    THEN [acao |-> origin, acac |-> "true", vary |-> "Origin"]
    ELSE [acao |-> Undefined, acac |-> Undefined, vary |-> "Origin"]

\* cors({origin: <string>, credentials: true}): with a string origin the
\* middleware writes that fixed origin on every response it sees, whatever
\* the request's Origin header is
CorsHeaders(e, origin) ==
    [acao |-> OrElse(e.FRONTEND_URL, DefaultOrigin), acac |-> "true",
     vary |-> "Origin"]

\* cors answers every OPTIONS request itself (preflightContinue is off)
Preflight(headers) == Response(204, "cors", [empty |-> TRUE], headers)

\* express.json / express.urlencoded: a body that cannot be parsed (or is
\* over the 10mb limit) raises an error; no body leaves req.body = {}
ParseError(body) == body.kind = "malformed"
ParseFailure == [message |-> "Unexpected token in JSON"]

\* express.static('uploads') under /uploads: answers GET and HEAD for a file
\* that exists and passes everything else on
StaticServes(r) ==
    /\ Len(r.path) >= 1 /\ r.path[1] = "uploads"
    /\ r.method \in {"GET", "HEAD"}
    /\ r.file
StaticFile(r, headers) == Response(200, "static", [file |-> r.path], headers)

-----------------------------------------------------------------------------
(* Date.prototype.toISOString *)

\* the UTC calendar date of a day number, then the time of day
toISOString(t) ==
    LET z   == t.days + 719468
        era == z \div 146097
        doe == z - era * 146097
        yoe == (doe - doe \div 1460 + doe \div 36524 - doe \div 146096) \div 365
        doy == doe - (365 * yoe + yoe \div 4 - yoe \div 100)
        mp  == (5 * doy + 2) \div 153
        d   == doy - (153 * mp + 2) \div 5 + 1
        m   == IF mp < 10 THEN mp + 3 ELSE mp - 9
        y   == yoe + era * 400 + (IF m <= 2 THEN 1 ELSE 0)
    IN  [year |-> y, month |-> m, day |-> d,
         hour |-> t.ms \div 3600000,
         minute |-> (t.ms \div 60000) % 60,
         second |-> (t.ms \div 1000) % 60,
         milli |-> t.ms % 1000,
         zone |-> "Z"]

-----------------------------------------------------------------------------
(* Route handlers *)

\* variant: the label without its default
HealthNoDefault(r, e) ==
    [status |-> "OK",
     message |-> "SakuraDevClass API funcionando correctamente",
     timestamp |-> toISOString(r.now),
     environment |-> e.NODE_ENV]

\* app.get('/api/health')
Health(r, e) ==
    [status |-> "OK",
     message |-> "SakuraDevClass API funcionando correctamente",
     timestamp |-> toISOString(r.now),
     environment |-> OrElse(e.NODE_ENV, "development")]

\* app.get('/api')
Welcome ==
    [message |-> "Bienvenido a SakuraDevClass API", version |-> "1.0.0",
     endpoints |-> <<"GET /api/health - Health check",
                     "GET /api/projects - Obtener proyectos",
                     "GET /api/students - Obtener estudiantes",
                     "POST /api/contact - Enviar mensaje">>]

\* the literal the projects handler answers with
ProjectsData ==
    << [_id |-> "1", title |-> "E-commerce Vintage",
        technologies |-> <<"React", "Node.js", "MongoDB">>,
        difficulty |-> "Intermedio", season |-> "Verano",
        status |-> "Completado", featured |-> TRUE, sakuraPoints |-> 75,
        students |-> <<[_id |-> "s1", name |-> "Maria Garcia"]>>],
       [_id |-> "2", title |-> "API de Biblioteca",
        technologies |-> <<"Node.js", "Express", "MySQL">>,
        difficulty |-> "Avanzado", season |-> "Otono",
        status |-> "En Progreso", featured |-> FALSE, sakuraPoints |-> 50,
        students |-> <<[_id |-> "s2", name |-> "Carlos Lopez"]>>] >>

\* variant: a count that does not follow the array
ProjectsCountOne == [success |-> TRUE, data |-> ProjectsData, count |-> 1]

\* app.get('/api/projects'): count is written as the literal 2
Projects == [success |-> TRUE, data |-> ProjectsData, count |-> 2]

\* the literal the students handler answers with
StudentsData ==
    << [_id |-> "s1", name |-> "Maria Garcia", email |-> "maria@example.com",
        currentLevel |-> "Intermedio", totalSakuraPoints |-> 150,
        skills |-> <<[name |-> "React", level |-> 4],
                     [name |-> "JavaScript", level |-> 4],
                     [name |-> "CSS", level |-> 3]>>],
       [_id |-> "s2", name |-> "Carlos Lopez", email |-> "carlos@example.com",
        currentLevel |-> "Avanzado", totalSakuraPoints |-> 200,
        skills |-> <<[name |-> "Node.js", level |-> 5],
                     [name |-> "MongoDB", level |-> 4],
                     [name |-> "Express", level |-> 5]>>] >>

\* app.get('/api/students'): count is written as the literal 2
Students == [success |-> TRUE, data |-> StudentsData, count |-> 2]

\* variant: the check forgets the message field
ContactValidNoMessage(b) ==
    ~(~Truthy(b.name) \/ ~Truthy(b.email) \/ ~Truthy(b.subject))

\* app.post('/api/contact'): the presence check on the four fields
ContactValid(b) ==
    ~(~Truthy(b.name) \/ ~Truthy(b.email) \/ ~Truthy(b.subject)
        \/ ~Truthy(b.message))

ContactRejected ==
    [success |-> FALSE, message |-> "Todos los campos son requeridos"]
ContactAccepted ==
    [success |-> TRUE, message |-> "Mensaje enviado correctamente. Te respondere pronto!"]

\* the line the contact handler logs: name, email and subject, no message
ContactLog(b) ==
    <<[line |-> "Nuevo mensaje de contacto", name |-> b.name,
       email |-> b.email, subject |-> b.subject]>>

\* variant: the detail is hidden in production only
ErrorHandlerUnlessProduction(err, e, headers) ==
    Response(500, "error",
             [success |-> FALSE, message |-> "Error interno del servidor",
              error |-> IF e.NODE_ENV # "production"
                        THEN err.message ELSE Undefined],
             headers)

\* the error-handling middleware
ErrorHandler(err, e, headers) ==
    Response(500, "error",
             [success |-> FALSE, message |-> "Error interno del servidor",
              error |-> IF e.NODE_ENV = "development"
                        THEN err.message ELSE Undefined],
             headers)
ErrorLog(err) == <<[line |-> "Error", stack |-> err.message]>>

\* app.use('*'): the fallback
AvailableRoutes ==
    <<"/api/health", "/api/projects", "/api/students", "/api/contact">>
\* variant: the fallback forgets res.status(404)
NotFoundNoStatus(headers) ==
    Response(200, "notFound",
             [success |-> FALSE, message |-> "Ruta no encontrada",
              availableRoutes |-> AvailableRoutes],
             headers)

NotFound(headers) ==
    Response(404, "notFound",
             [success |-> FALSE, message |-> "Ruta no encontrada",
              availableRoutes |-> AvailableRoutes],
             headers)

\* Express 4 routes a HEAD request to a GET route that has no HEAD handler
RouteMethod(m) == IF m = "HEAD" THEN "GET" ELSE m

\* the routes in the order server.js registers them, then the fallback
Dispatch(r, e, headers) ==
    LET m == RouteMethod(r.method) IN
    IF m = "GET" /\ r.path = HealthPath
    THEN [res |-> Response(200, "health", Health(r, e), headers), log |-> <<>>]
    ELSE IF m = "GET" /\ r.path = ApiRoot
    THEN [res |-> Response(200, "welcome", Welcome, headers), log |-> <<>>]
    ELSE IF m = "GET" /\ r.path = ProjectsPath
    THEN [res |-> Response(200, "projects", Projects, headers), log |-> <<>>]
    ELSE IF m = "GET" /\ r.path = StudentsPath
    THEN [res |-> Response(200, "students", Students, headers), log |-> <<>>]
    ELSE IF m = "POST" /\ r.path = ContactPath
    THEN IF ContactValid(r.body)
         THEN [res |-> Response(200, "contact", ContactAccepted, headers),
               log |-> ContactLog(r.body)]
         ELSE [res |-> Response(400, "contact", ContactRejected, headers),
               log |-> <<>>]
    ELSE [res |-> NotFound(headers), log |-> <<>>]

\* everything behind the limiter
AfterLimiter(r, e) ==
    LET headers == CorsHeaders(e, r.origin) IN
    IF r.method = "OPTIONS"
    THEN [res |-> Preflight(headers), log |-> <<>>]
    ELSE IF ParseError(r.body)
    THEN [res |-> ErrorHandler(ParseFailure, e, headers),
          log |-> ErrorLog(ParseFailure)]
    ELSE IF StaticServes(r)
    THEN [res |-> StaticFile(r, headers), log |-> <<>>]
    ELSE Dispatch(r, e, headers)

\* the whole pipeline on request r with the store (h, x): the response, the
\* console output and the address's new count
Pipeline(r, h, x, e) ==
    LET rest == AfterLimiter(r, e) IN
    IF UnderApi(r.path)
    THEN LET n == Increment(h, x, r.addr) IN
         IF Exceeded(n)
         THEN [res |-> Limited, log |-> <<>>, count |-> n, counted |-> TRUE]
         ELSE [res |-> rest.res, log |-> rest.log,
               count |-> n, counted |-> TRUE]
    ELSE [res |-> rest.res, log |-> rest.log,
          count |-> h[r.addr], counted |-> FALSE]

-----------------------------------------------------------------------------
(* Actions *)

\* the server handles request r
Handle(r) ==
    LET out == Pipeline(r, hits, expired, env) IN
    /\ out.count <= max + Over
    /\ req' = r
    /\ res' = out.res
    /\ console' = out.log
    /\ hits' = [hits EXCEPT ![r.addr] = out.count]
    /\ expired' = [expired EXCEPT ![r.addr] = IF out.counted THEN FALSE ELSE @]
    /\ UNCHANGED env

\* time passes the reset time of address a's window
WindowExpires(a) ==
    /\ hits[a] > 0 /\ ~expired[a]
    /\ expired' = [expired EXCEPT ![a] = TRUE]
    /\ UNCHANGED <<hits, env, req, res, console>>

InitWith(H, E) ==
    /\ hits \in H
    /\ expired = [a \in Addresses |-> FALSE]
    /\ env \in E
    /\ req = NoRequest
    /\ res = NoResponse
    /\ console = <<>>

-----------------------------------------------------------------------------
(* Specification of the limiter over time: two addresses, two paths *)

Request(addr, method, path, origin, body, file, now) ==
    [addr |-> addr, method |-> method, path |-> path, origin |-> origin,
     body |-> body, file |-> file, now |-> now]

LimiterRequests ==
    { Request(a, "GET", p, Undefined, NoBody, FALSE, Epoch) :
        a \in Addresses, p \in {HealthPath, UploadPath} }

DefaultEnv == [NODE_ENV |-> Undefined, FRONTEND_URL |-> Undefined]

Init == InitWith({[a \in Addresses |-> 0]}, {DefaultEnv})

Serve == \E r \in LimiterRequests : Handle(r)

Expire == \E a \in Addresses : WindowExpires(a)

Next == Serve \/ Expire

Spec == Init /\ [][Next]_vars

-----------------------------------------------------------------------------
(* Specifications of the pipeline on one request: every environment, one   *)
(* client whose window is new or holds max - 1 requests, short runs        *)

Client == "10.0.0.1"

\* the stores the runs start from, both reached under Spec: the client has
\* sent nothing yet, or has max - 1 requests counted in its running window
Stores == { [a \in Addresses |-> IF a = Client THEN n ELSE 0] :
              n \in {0, max - 1} }

\* requests counted since the run started
Burst(n) == IF n >= max - 1 THEN n - (max - 1) ELSE n

HandleBurst(r) == Burst(hits[r.addr]) < MaxBurst /\ Handle(r)

PipelineRequests ==
    { Request(Client, m, p, o, b, FALSE, Epoch) :
        m \in Methods, p \in Paths, o \in Origins, b \in {NoBody, BadBody} }
    \cup { Request(Client, m, UploadPath, o, NoBody, TRUE, Epoch) :
             m \in Methods, o \in Origins }
    \cup { Request(Client, "POST", ContactPath, o, FullBody, FALSE, Epoch) :
             o \in Origins }
    \cup { Request(Client, "GET", HealthPath, Undefined, NoBody, FALSE, t) :
             t \in Clocks }

InitPipeline == InitWith(Stores, Envs)

ServePipeline == \E r \in PipelineRequests : HandleBurst(r)

SpecPipeline == InitPipeline /\ [][ServePipeline]_vars

ContactRequests ==
    { Request(Client, "POST", ContactPath, Undefined, b, FALSE, Epoch) :
        b \in JsonBodies \cup {NoBody, BadBody} }
    \cup { Request(Client, m, ContactPath, Undefined, FullBody, FALSE, Epoch) :
             m \in Methods }

InitContact == InitWith(Stores, {DefaultEnv})

ServeContact == \E r \in ContactRequests : HandleBurst(r)

SpecContact == InitContact /\ [][ServeContact]_vars

-----------------------------------------------------------------------------
(* Claims about the limiter, checked under Spec *)

Handled == req # NoRequest

\* a path under the API root /api
IsApiPath(path) == path # <<>> /\ Head(path) = "api"
LastIsApi == Handled /\ IsApiPath(req.path)
RateLimited == res.stage = "limiter" /\ res.status = 429
                 /\ res.body = RateLimitMessage

\* C1: in one window the first 100 requests of an address to paths under
\* /api pass the limiter and are answered by the route (200), the 101st and
\* every later one gets the fixed 429 rejection, and an address's count moves
\* only by one per /api request of that same address.
C1_FirstHundredPass ==
    /\ [](LastIsApi =>
            /\ hits[req.addr] <= max => res.stage = "health" /\ res.status = 200
            /\ hits[req.addr] > max => RateLimited)
    /\ [][\A a \in Addresses :
            hits'[a] # hits[a] =>
              /\ req'.addr = a /\ IsApiPath(req'.path)
              /\ hits'[a] = IF hits[a] = 0 \/ expired[a] THEN 1 ELSE hits[a] + 1]_vars

\* the 102nd request of one address is rejected while the other address
\* has requests of its own counted in its window and is within its limit
C1_Witness ==
    /\ LastIsApi /\ RateLimited /\ hits[req.addr] = max + 2
    /\ \E b \in Addresses \ {req.addr} : hits[b] \in 1..max

\* C9: a request to a path outside /api leaves every counter and every
\* window as it was and is never answered by the limiter, whatever the
\* address's count is.
C9_OnlyApiCounted ==
    /\ [](Handled /\ ~IsApiPath(req.path) => res.stage # "limiter")
    /\ [][(~IsApiPath(req'.path) /\ <<req, res, console>>' # <<req, res, console>>)
            => hits' = hits /\ expired' = expired]_vars

\* an address over its limit is still served a path outside /api
C9_Witness ==
    /\ Handled /\ req.path = UploadPath /\ res.status = 404
    /\ hits[req.addr] > max /\ ~expired[req.addr]

\* C10: once an address's window has run out, its next /api request starts a
\* new window with count 1 and is served, also when the address was being
\* rejected; a window is left in no other way.
C10_WindowExpiry ==
    [][\A a \in Addresses :
         (expired[a] /\ ~expired'[a]) =>
           /\ req'.addr = a /\ IsApiPath(req'.path)
           /\ hits'[a] = 1
           /\ res'.stage = "health" /\ res'.status = 200]_vars

\* an address that was rejected and whose window has since run out
C10_Witness ==
    /\ LastIsApi /\ RateLimited
    /\ hits[req.addr] > max /\ expired[req.addr]

-----------------------------------------------------------------------------
(* Claims about the contact route, checked under SpecContact *)

\* a body field that is there and is not empty
Filled(v) == v # Undefined /\ v # "<null>" /\ v # ""

AllFilled(b) ==
    Filled(b.name) /\ Filled(b.email) /\ Filled(b.subject) /\ Filled(b.message)

ContactHandled ==
    Handled /\ req.method = "POST" /\ req.path = ContactPath
            /\ res.stage = "contact"

-----------------------------------------------------------------------------
(* Claims about the pipeline, checked under SpecPipeline *)

\* the request is turned away by the limiter: its count is beyond max
OverLimit == IsApiPath(req.path) /\ hits[req.addr] > max

\* the request reaches the body parsers and they fail on it
Throws == Handled /\ ~OverLimit /\ req.method # "OPTIONS"
            /\ req.body.kind = "malformed"

Configured ==
    IF env.FRONTEND_URL \in {Undefined, ""} THEN DefaultOrigin
    ELSE env.FRONTEND_URL

\* C4 as claimed: a request from another origin gets no CORS allow header.
C4_NoHeaderForOtherOrigin ==
    (Handled /\ req.origin # Configured) =>
        res.headers.acao = Undefined /\ res.headers.acac = Undefined

\* C4 as amended: every response that passes the limiter carries
\* Access-Control-Allow-Origin with the configured origin and
\* Access-Control-Allow-Credentials: true whatever the request's Origin is, so
\* the header never names another origin; a rate-limited response carries
\* neither header.
C4_FixedAllowOrigin ==
    Handled =>
        IF OverLimit
        THEN res.headers.acao = Undefined /\ res.headers.acac = Undefined
        ELSE res.headers.acao = Configured /\ res.headers.acac = "true"

\* a request from another origin answered with the configured origin
C4_Witness ==
    /\ Handled /\ req.origin \notin {Undefined, Configured}
    /\ res.headers.acao = Configured /\ res.headers.acao # req.origin

\* one of the five routes as server.js writes them
Defined(m, path) ==
    \/ m = "GET" /\ path \in {HealthPath, ApiRoot, ProjectsPath, StudentsPath}
    \/ m = "POST" /\ path = ContactPath

FallbackAnswer ==
    /\ res.status = 404 /\ res.stage = "notFound"
    /\ ~res.body.success
    /\ res.body.message = "Ruta no encontrada"
    /\ res.body.availableRoutes = <<"/api/health", "/api/projects",
                                    "/api/students", "/api/contact">>

\* a GET or POST without a body that asks for no uploaded file
Plain ==
    Handled /\ req.method \in {"GET", "POST"} /\ req.body.kind = "none"
            /\ ~req.file

\* C5 as claimed, already for plain requests: a request that matches none of
\* the five routes (an unknown path such as /api/unknown, a defined path with
\* the wrong method) gets the 404 answer.
C5_AlwaysNotFound ==
    (Plain /\ ~Defined(req.method, req.path)) => FallbackAnswer

\* the request gets as far as the routes
ReachesRoutes ==
    /\ Handled /\ ~OverLimit
    /\ req.method # "OPTIONS"
    /\ req.body.kind # "malformed"
    /\ ~(req.path = UploadPath /\ req.method \in {"GET", "HEAD"} /\ req.file)

\* C5 as amended: a request that the limiter lets through, that is not an
\* OPTIONS request (answered 204 by the CORS stage), whose body parses, that
\* the static stage does not serve and that matches none of the five routes,
\* a HEAD counting as a GET, gets 404, success=false, the "route not found"
\* message and the list of four routes.
C5_NotFoundAtFallback ==
    (ReachesRoutes
       /\ ~Defined(IF req.method = "HEAD" THEN "GET" ELSE req.method, req.path))
      => FallbackAnswer

\* an unknown path under /api and a defined path with the wrong method
C5_Witness ==
    /\ ReachesRoutes /\ FallbackAnswer
    /\ \/ req.path = UnknownApiPath
       \/ req.path = HealthPath /\ req.method = "POST"

DaysInMonth(y, m) ==
    IF m = 2
    THEN (IF (y % 4 = 0 /\ y % 100 # 0) \/ y % 400 = 0 THEN 29 ELSE 28)
    ELSE IF m \in {4, 6, 9, 11} THEN 30 ELSE 31

\* the fields of an ISO-8601 UTC timestamp YYYY-MM-DDTHH:mm:ss.sssZ
IsISO8601(ts) ==
    /\ ts.year \in 0..9999 /\ ts.month \in 1..12
    /\ ts.day \in 1..DaysInMonth(ts.year, ts.month)
    /\ ts.hour \in 0..23 /\ ts.minute \in 0..59 /\ ts.second \in 0..59
    /\ ts.milli \in 0..999 /\ ts.zone = "Z"

\* the calendar dates of the clock readings
DateOf(t) ==
    IF t.days = 0 THEN <<1970, 1, 1>>
    ELSE IF t.days = 11016 THEN <<2000, 2, 29>> ELSE <<2025, 12, 31>>

HealthAnswer ==
    /\ res.status = 200 /\ res.stage = "health"
    /\ res.body.status = "OK"
    /\ IsISO8601(res.body.timestamp)
    /\ <<res.body.timestamp.year, res.body.timestamp.month,
         res.body.timestamp.day>> = DateOf(req.now)
    /\ res.body.environment =
         (IF env.NODE_ENV = Undefined THEN "development" ELSE env.NODE_ENV)

IsGetHealth == Handled /\ req.method = "GET" /\ req.path = HealthPath

\* C6 as claimed, already for a GET without a body: GET /api/health always
\* answers status "OK", after any sequence of earlier requests.
C6_HealthAlwaysOK ==
    (IsGetHealth /\ Plain) => res.stage = "health" /\ res.status = 200

\* C6 as amended: GET /api/health answers status "OK" with an ISO-8601
\* timestamp and the environment label whenever the limiter lets the request
\* through and its body, if it has one, parses.
C6_HealthWhenServed ==
    (IsGetHealth /\ ~OverLimit /\ req.body.kind # "malformed") => HealthAnswer

\* the 100th request of the window, on a leap day, in production
C6_Witness ==
    /\ IsGetHealth /\ HealthAnswer
    /\ hits[req.addr] = max /\ req.now.days = 11016
    /\ env.NODE_ENV = "production"

\* C7: with NODE_ENV not set the server behaves as in development: the
\* health label is "development" and a 500 answer carries the raw error
\* message.
C7_UnsetIsDevelopment ==
    env.NODE_ENV = Undefined =>
        /\ res.stage = "health" => res.body.environment = "development"
        /\ res.stage = "error" => res.body.error # Undefined

Ids(data) == [i \in 1..Len(data) |-> data[i]._id]

\* C8: every handled GET /api/projects and GET /api/students answers the
\* same two records, with count equal to the length of the array, whatever
\* was requested before and whatever the environment is.
C8_StaticData ==
    /\ res.stage = "projects" =>
         /\ res.body.success /\ Len(res.body.data) = 2
         /\ res.body.count = Len(res.body.data)
         /\ Ids(res.body.data) = <<"1", "2">>
         /\ res.body.data[1].title = "E-commerce Vintage"
         /\ res.body.data[2].title = "API de Biblioteca"
    /\ res.stage = "students" =>
         /\ res.body.success /\ Len(res.body.data) = 2
         /\ res.body.count = Len(res.body.data)
         /\ Ids(res.body.data) = <<"s1", "s2">>
         /\ \A i \in 1..2 : \A k \in 1..Len(res.body.data[i].skills) :
               res.body.data[i].skills[k].level \in 1..5

\* the projects served as the 100th request of a window
C8_Witness ==
    /\ Handled /\ req.method = "GET" /\ req.path = ProjectsPath
    /\ res.stage = "projects" /\ hits[req.addr] = max

=============================================================================
